---- MODULE Spec2Model ----
(***************************************************************************)
(* State-machine model of SyMBac/cell_simulation.py: run_simulation and    *)
(* the per-frame handler step_and_update with the helpers it calls         *)
(* (wipe_space, update_pm_cells, cell_adder, update_cell_positions).       *)
(*                                                                         *)
(* Python objects are modelled on a heap: `obj` holds the Cell objects     *)
(* (live cells, removed cells and the copies made by deepcopy), `body`     *)
(* holds the pymunk bodies.  A shape is identified with the id of the body *)
(* it is attached to (shape.body), so space.bodies and space.shapes are    *)
(* two insertion-ordered sequences of ids.  The physics engine is a black  *)
(* box: a world step moves every dynamic body held by the space to an      *)
(* arbitrary y position.                                                   *)
(***************************************************************************)
EXTENDS Integers, Sequences, FiniteSets, TLC

\* ---------------------------------------------------------------- bounds
MaxSimLength == 3      \* largest sim_length explored
NStatic == 2           \* static trench segments put in the space by trench_creator
cell_max_length == 6   \* the cell_max_length argument (in length units)

\* ------------------------------------------------------ program constants
SettleSteps == 150     \* range(150) in update_pm_cells
WarmUp == 1            \* x[0] > 1 in step_and_update
DYNAMIC == 0           \* body.body_type == 0 in wipe_space
STATIC == DYNAMIC + 2  \* pymunk.Body.STATIC
SeedY == 100           \* position=(40, 100) of the seed cell
TrenchY == 0           \* trench_creator(..., (35, 0), space)
ExtraCalls == 2        \* range(sim_length+2)
NoFrame == 0 - 1       \* Cell.t before run_simulation stamps it
NoCell == 0            \* None in the mother / daughter links

SimLengths == 2..MaxSimLength
YLims == {0 - 1, 50, 150}        \* ylim = trench_length * scale_factor
LysisPs == {0, 50, 100}             \* lysis_p in percent
Draws == {0 - 1, 1}              \* outcomes of norm.rvs()
NegInf == 0 - 1000
PosInf == 0 - NegInf

VARIABLES
    pc,               \* position inside run_simulation / step_and_update
    show_window,      \* argument of run_simulation
    sim_length,       \* argument of run_simulation
    lysis_p,          \* argument of run_simulation
    ylim,             \* trench_length after scaling
    window,           \* "none", "open", "closed" (key E), "exited" (pyglet.app.exit)
    calls,            \* completed iterations of the headless loop
    x,                \* x[0], the frame counter
    cells,            \* the live-cell list (ids into obj)
    historic_cells,   \* the historic-cell record (ids into obj)
    cell_timeseries,  \* list of frames, each a list of ids into obj
    obj,              \* heap of Cell objects
    body,             \* heap of pymunk bodies: id -> [body_type, y]
    next_body,        \* next fresh body id
    space,            \* [bodies, shapes, fault, historic_N_cells]
    n_saves,          \* number of times the results were pickled
    saved_len,        \* length of the time series in the last pickle
    stats             \* per-step counters of world steps and live-iteration mutations

vars == <<pc, show_window, sim_length, lysis_p, ylim, window, calls, x, cells,
          historic_cells, cell_timeseries, obj, body, next_body, space,
          n_saves, saved_len, stats>>

params == <<show_window, sim_length, lysis_p, ylim>>

\* ---------------------------------------------------------------- helpers
Range(s) == {s[i] : i \in 1..Len(s)}

Member(e, s) == \E i \in 1..Len(s) : s[i] = e

IsPrefix(s, t) == Len(s) <= Len(t) /\ \A i \in 1..Len(s) : s[i] = t[i]

RECURSIVE RemoveFirst(_, _)
\* list.remove(e): drops the first occurrence of e
RemoveFirst(s, e) ==
    IF s = <<>> THEN <<>>
    ELSE IF Head(s) = e THEN Tail(s)
    ELSE <<Head(s)>> \o RemoveFirst(Tail(s), e)

Restrict(f, S) == [k \in (DOMAIN f) \cap S |-> f[k]]

\* positions a body can be moved to by the physics engine
YVals(yl) == {0 - 1, SeedY, yl + 1}

\* shape.body.position.y < 0 or shape.body.position.y > ylim
OutOfBounds(y, yl) == y < 0 \/ y > yl

\* ------------------------------------------------------------ pymunk space
\* space.add(body, shape): adding an object the space already holds is a fault
SpaceAdd(sp, b) ==
    [sp EXCEPT !.bodies = IF Member(b, sp.bodies) THEN sp.bodies ELSE Append(sp.bodies, b),
               !.shapes = IF Member(b, sp.shapes) THEN sp.shapes ELSE Append(sp.shapes, b),
               !.fault = sp.fault \/ Member(b, sp.bodies) \/ Member(b, sp.shapes)]

\* space.remove(body): removing a body the space does not hold is a fault
SpaceRemoveBody(sp, b) ==
    [sp EXCEPT !.bodies = SelectSeq(sp.bodies, LAMBDA e : e # b),
               !.fault = sp.fault \/ ~Member(b, sp.bodies)]

\* space.remove(shape)
SpaceRemoveShape(sp, s) ==
    [sp EXCEPT !.shapes = SelectSeq(sp.shapes, LAMBDA e : e # s),
               !.fault = sp.fault \/ ~Member(s, sp.shapes)]

\* the bodies a world step moves: the dynamic bodies the space holds
Moving(bd, sp) == {b \in Range(sp.bodies) : bd[b].body_type = DYNAMIC}

\* space.step(dt): every outcome the physics engine can produce
StepOutcomes(bd, sp, yl) ==
    {[b \in DOMAIN bd |-> IF b \in Moving(bd, sp) THEN [bd[b] EXCEPT !.y = m[b]] ELSE bd[b]] :
        m \in [Moving(bd, sp) -> YVals(yl)]}

\* ------------------------------------------------------------------- Cell
\* a Cell object as built by the Cell constructor
NewCell(label, len, maxlen, pos, b, mo) ==
    [mask_label |-> label, length |-> len, max_length |-> maxlen, position |-> pos,
     body |-> b, mother |-> mo, daughter |-> NoCell, t |-> NoFrame]

\* Cell.update_length: first-order growth, one length unit per frame
update_length(c) == [c EXCEPT !.length = c.length + 1]

\* Cell.is_dividing: the length has reached the cell's sampled maximum
is_dividing(c) == c.length >= c.max_length

\* -------------------------------------------------------------------- Init
StaticBodies == [b \in 1..NStatic |-> [body_type |-> STATIC, y |-> TrenchY]]

Init ==
    /\ show_window \in BOOLEAN
    /\ sim_length \in SimLengths
    /\ lysis_p \in LysisPs
    /\ ylim \in YLims
    /\ pc = "purge"
    /\ window = IF show_window THEN "open" ELSE "none"
    /\ calls = 0
    /\ x = 0
    /\ cells = <<1>>
    /\ historic_cells = <<1>>
    /\ cell_timeseries = <<>>
    /\ obj = <<NewCell(1, cell_max_length \div 2, cell_max_length, SeedY, NStatic + 1, NoCell)>>
    /\ body = StaticBodies @@ ((NStatic + 1) :> [body_type |-> DYNAMIC, y |-> SeedY])
    /\ next_body = NStatic + 2
    /\ space = [bodies |-> [i \in 1..NStatic |-> i], shapes |-> [i \in 1..NStatic |-> i],
                fault |-> FALSE, historic_N_cells |-> 1]
    /\ n_saves = 0
    /\ saved_len = 0
    /\ stats = [purge_log |-> <<>>, purge_removed |-> 0, purge_steps |-> 0, settle_steps |-> 0,
                live_mutations |-> 0, growth_log |-> <<>>]

\* ------------------------------------------- step_and_update, lines 257-267
\* the selection loop over list(space.shapes)
PurgeSelect(sp, bd, yl) == SelectSeq(sp.shapes, LAMBDA s : OutOfBounds(bd[s].y, yl))

\* the events of the removal loop, in the order the loop executes them
RemoveEvent(b) == [op |-> "remove", id |-> b]

StepEvent == [op |-> "step", id |-> NoCell]

CountOp(log, o) == Cardinality({i \in 1..Len(log) : log[i].op = o})

RECURSIVE PurgeApplyBatched(_, _, _, _)
\* a removal loop that removes every pair first and steps the world once
PurgeApplyBatched(rem, sp, bd, yl) ==
    IF rem = <<>> THEN {<<sp, bd, <<>>>>}
    ELSE LET sp1 == SpaceRemoveShape(SpaceRemoveBody(sp, Head(rem)), Head(rem))
         IN IF Tail(rem) = <<>>
            THEN {<<sp1, b1, <<RemoveEvent(Head(rem)), StepEvent>>>> :
                     b1 \in StepOutcomes(bd, sp1, yl)}
            ELSE {<<o[1], o[2], <<RemoveEvent(Head(rem))>> \o o[3]>> :
                     o \in PurgeApplyBatched(Tail(rem), sp1, bd, yl)}

RECURSIVE PurgeApply(_, _, _, _)
\* the removal loop: space.remove(body, shape) then space.step(dt), per pair;
\* every outcome is the space, the bodies and the log of events
PurgeApply(rem, sp, bd, yl) ==
    IF rem = <<>> THEN {<<sp, bd, <<>>>>}
    ELSE LET sp1 == SpaceRemoveShape(SpaceRemoveBody(sp, Head(rem)), Head(rem))
         IN UNION {{<<o[1], o[2], <<RemoveEvent(Head(rem)), StepEvent>> \o o[3]>> :
                       o \in PurgeApply(Tail(rem), sp1, b1, yl)} :
                   b1 \in StepOutcomes(bd, sp1, yl)}

PurgeBodies ==
    /\ pc = "purge"
    /\ LET rem == PurgeSelect(space, body, ylim)
       IN \E out \in PurgeApply(rem, space, body, ylim) :
             /\ space' = out[1]
             /\ body' = out[2]
             /\ stats' = [purge_log |-> out[3],
                          purge_removed |-> CountOp(out[3], "remove"),
                          purge_steps |-> CountOp(out[3], "step"),
                          settle_steps |-> 0, live_mutations |-> 0, growth_log |-> <<>>]
    /\ pc' = "remove"
    /\ UNCHANGED <<params, window, calls, x, cells, historic_cells, cell_timeseries,
                   obj, next_body, n_saves, saved_len>>

\* ------------------------------------------- step_and_update, lines 286-299
\* a percent-point function that is finite at 0: norm.ppf(0) taken as 0
norm_ppf_finite(p) == IF p = 100 THEN PosInf ELSE 0

\* norm.ppf(cell.lysis_p), lysis_p given in percent
norm_ppf(p) == IF p = 0 THEN NegInf ELSE IF p = 100 THEN PosInf ELSE 0

\* norm.rvs() <= norm.ppf(cell.lysis_p) and len(cells) > 1
LysisTriggered(draw, p, ncells) == draw <= norm_ppf(p) /\ ncells > 1

\* the selection loop over cells; draws[i] is the norm.rvs() sample of cells[i]
RemoveSelect(cs, ob, bd, yl, p, draws) ==
    LET marked(i) == \/ OutOfBounds(bd[ob[cs[i]].body].y, yl)
                     \/ LysisTriggered(draws[i], p, Len(cs))
        idx == SelectSeq([i \in 1..Len(cs) |-> i], marked)
    IN [k \in 1..Len(idx) |-> cs[idx[k]]]

RECURSIVE RemoveApply(_, _, _, _, _)
\* the removal loop: cells.remove(cell_item) then space.step(dt), per cell
RemoveApply(rem, cs, sp, bd, yl) ==
    IF rem = <<>> THEN {<<cs, bd>>}
    ELSE IF Member(Head(rem), cs)
         THEN UNION {RemoveApply(Tail(rem), RemoveFirst(cs, Head(rem)), sp, b1, yl) :
                        b1 \in StepOutcomes(bd, sp, yl)}
         ELSE RemoveApply(Tail(rem), cs, sp, bd, yl)

RemoveCells ==
    /\ pc = "remove"
    /\ \E draws \in [1..Len(cells) -> Draws] :
         LET rem == RemoveSelect(cells, obj, body, ylim, lysis_p, draws)
         IN \E out \in RemoveApply(rem, cells, space, body, ylim) :
               /\ cells' = out[1]
               /\ body' = out[2]
    /\ pc' = "wipe"
    /\ UNCHANGED <<params, window, calls, x, historic_cells, cell_timeseries, obj,
                   next_body, space, n_saves, saved_len, stats>>

\* ------------------------------------------------------------- wipe_space
Min(a, b) == IF a <= b THEN a ELSE b

\* the indices of zip(space.bodies, space.shapes) whose body is dynamic
WipeSelect(sp, bd) ==
    SelectSeq([i \in 1..Min(Len(sp.bodies), Len(sp.shapes)) |-> i],
              LAMBDA i : bd[sp.bodies[i]].body_type = DYNAMIC)

RECURSIVE RemoveBodies(_, _)
RemoveBodies(sp, bs) ==
    IF bs = <<>> THEN sp ELSE RemoveBodies(SpaceRemoveBody(sp, Head(bs)), Tail(bs))

RECURSIVE RemoveShapes(_, _)
RemoveShapes(sp, ss) ==
    IF ss = <<>> THEN sp ELSE RemoveShapes(SpaceRemoveShape(sp, Head(ss)), Tail(ss))

\* a wipe whose first loop removes each body together with its shape and
\* whose second loop then removes the shapes again
wipe_pairs_then_shapes(sp, bd) ==
    LET idx == WipeSelect(sp, bd)
        bodies_to_remove == [k \in 1..Len(idx) |-> sp.bodies[idx[k]]]
        shapes_to_remove == [k \in 1..Len(idx) |-> sp.shapes[idx[k]]]
    IN RemoveShapes(RemoveShapes(RemoveBodies(sp, bodies_to_remove), shapes_to_remove),
                    shapes_to_remove)

\* a wipe that removes the dynamic bodies and leaves their shapes
wipe_bodies_only(sp, bd) ==
    LET idx == WipeSelect(sp, bd)
    IN RemoveBodies(sp, [k \in 1..Len(idx) |-> sp.bodies[idx[k]]])

wipe_space(sp, bd) ==
    LET idx == WipeSelect(sp, bd)
        bodies_to_remove == [k \in 1..Len(idx) |-> sp.bodies[idx[k]]]
        shapes_to_remove == [k \in 1..Len(idx) |-> sp.shapes[idx[k]]]
    IN RemoveShapes(RemoveBodies(sp, bodies_to_remove), shapes_to_remove)

WipeSpace ==
    /\ pc = "wipe"
    /\ space' = wipe_space(space, body)
    /\ pc' = "update"
    /\ UNCHANGED <<params, window, calls, x, cells, historic_cells, cell_timeseries,
                   obj, body, next_body, n_saves, saved_len, stats>>

\* --------------------------------------------------------- update_pm_cells
\* Cell.create_pm_cell on a cell that is not dividing: a new body and shape at
\* the cell's position, returned as the pair (body, shape)
CreateBody(st, c) ==
    [st EXCEPT !.obj[c].body = st.next_body,
               !.body = st.body @@ (st.next_body :> [body_type |-> DYNAMIC,
                                                     y |-> st.obj[c].position]),
               !.next_body = st.next_body + 1,
               !.ret_len = 2]

\* max_length of a daughter, resampled around max_length_mean
DaughterMaxLength(mo) == mo.max_length

\* Cell.create_pm_cell on a dividing cell: the cell keeps half of its length on
\* a new body and the daughter descriptor (length, position, angle, growth
\* parameters, ...) is returned
CreateDivision(st, c) ==
    LET half == st.obj[c].length \div 2
        s1 == CreateBody(st, c)
    IN [s1 EXCEPT !.obj[c].length = half,
                  !.ret_len = 3,
                  !.details = [length |-> st.obj[c].length - half,
                               max_length |-> DaughterMaxLength(st.obj[c]),
                               position |-> st.obj[c].position]]

\* Cell(**daughter_details): the constructor builds the daughter's first body
\* and takes the next mask label from space.historic_N_cells
ConstructDaughter(st) ==
    LET label == st.space.historic_N_cells + 1
    IN [st EXCEPT !.obj = Append(st.obj, NewCell(label, st.details.length,
                                                 st.details.max_length,
                                                 st.details.position,
                                                 st.next_body, NoCell)),
                  !.body = st.body @@ (st.next_body :> [body_type |-> DYNAMIC,
                                                        y |-> st.details.position]),
                  !.next_body = st.next_body + 1,
                  !.space.historic_N_cells = label]

\* cell_adder(cell, space)
cell_adder(st, c) == [st EXCEPT !.space = SpaceAdd(st.space, st.obj[c].body)]

\* a loop body that sets cell.daughter and leaves daughter.mother unset
UpdateOneHalfLinked(st, i) ==
    LET c == st.cells[i]
        grown == [st EXCEPT !.obj[c] = update_length(st.obj[c]),
                            !.growth_log = Append(st.growth_log, c)]
        made == IF is_dividing(grown.obj[c])
                THEN LET dv == CreateDivision(grown, c)
                     IN IF dv.ret_len > 2
                        THEN LET born == ConstructDaughter(dv)
                                 d == Len(born.obj)
                             IN [born EXCEPT !.obj[c].daughter = d,
                                             !.cells = Append(born.cells, d),
                                             !.live_mutations = born.live_mutations + 1]
                        ELSE dv
                ELSE CreateBody(grown, c)
        added == cell_adder(made, c)
    IN [added EXCEPT !.settle_steps = added.settle_steps + SettleSteps]


\* the body of the for loop for the cell at index i of the list
UpdateOne(st, i) ==
    LET c == st.cells[i]
        grown == [st EXCEPT !.obj[c] = update_length(st.obj[c]),
                            !.growth_log = Append(st.growth_log, c)]
        made == IF is_dividing(grown.obj[c])
                THEN LET dv == CreateDivision(grown, c)
                     IN IF dv.ret_len > 2
                        THEN LET born == ConstructDaughter(dv)
                                 d == Len(born.obj)
                             IN [born EXCEPT !.obj[c].daughter = d,
                                             !.obj[d].mother = c,
                                             !.cells = Append(born.cells, d),
                                             !.live_mutations = born.live_mutations + 1]
                        ELSE dv
                ELSE CreateBody(grown, c)
        added == cell_adder(made, c)
    IN [added EXCEPT !.settle_steps = added.settle_steps + SettleSteps]

RECURSIVE UpdateLoopOverCopy(_, _)
\* for cell in list(cells): the loop stops at the length the list had when
\* the loop started
UpdateLoopOverCopy(st, i) ==
    IF i > Len(st.cells) - st.live_mutations THEN st
    ELSE UpdateLoopOverCopy(UpdateOne(st, i), i + 1)

RECURSIVE UpdateLoop(_, _)
\* for cell in cells: the iterator reads the list itself, so an element
\* appended by the loop body is visited by the same loop
UpdateLoop(st, i) ==
    IF i > Len(st.cells) THEN st ELSE UpdateLoop(UpdateOne(st, i), i + 1)

update_pm_cells(cs, ob, bd, nb, sp) ==
    UpdateLoop([cells |-> cs, obj |-> ob, body |-> bd, next_body |-> nb, space |-> sp,
                ret_len |-> 0, details |-> [length |-> 0, max_length |-> 0, position |-> 0],
                settle_steps |-> 0, live_mutations |-> 0, growth_log |-> <<>>], 1)

\* the bodies still referenced by a Cell object or held by the space
Referenced(ob, sp) == {ob[i].body : i \in 1..Len(ob)} \cup Range(sp.bodies) \cup Range(sp.shapes)

UpdatePmCells ==
    /\ pc = "update"
    /\ LET st == update_pm_cells(cells, obj, body, next_body, space)
           bd == Restrict(st.body, Referenced(st.obj, st.space))
       IN /\ cells' = st.cells
          /\ obj' = st.obj
          /\ next_body' = st.next_body
          /\ space' = st.space
          /\ stats' = [stats EXCEPT !.settle_steps = st.settle_steps,
                                    !.live_mutations = st.live_mutations,
                                    !.growth_log = st.growth_log]
          \* the settle steps ran after every cell_adder, the last of them with
          \* every live cell's body in the space
          /\ IF st.settle_steps > 0
             THEN body' \in StepOutcomes(bd, st.space, ylim)
             ELSE body' = bd
    /\ pc' = "phys"
    /\ UNCHANGED <<params, window, calls, x, historic_cells, cell_timeseries,
                   n_saves, saved_len>>

\* ------------------------------------------- step_and_update, lines 303-305
\* Cell.update_position for every live cell
update_cell_positions(cs, ob, bd) ==
    [i \in 1..Len(ob) |-> IF Member(i, cs) THEN [ob[i] EXCEPT !.position = bd[ob[i].body].y]
                          ELSE ob[i]]

\* phys_iters world steps (their composition is one arbitrary move) and the
\* position sync
PhysicsAndSync ==
    /\ pc = "phys"
    /\ \E b1 \in StepOutcomes(body, space, ylim) :
          /\ body' = b1
          /\ obj' = update_cell_positions(cells, obj, b1)
    /\ pc' = "record"
    /\ UNCHANGED <<params, window, calls, x, cells, historic_cells, cell_timeseries,
                   next_body, space, n_saves, saved_len, stats>>

\* ---------------------------------------------------------------- deepcopy
RECURSIVE Reachable(_, _)
\* the Cell objects reachable from a set of cells over the mother and
\* daughter links
Reachable(S, ob) ==
    LET T == (S \cup {ob[i].mother : i \in S} \cup {ob[i].daughter : i \in S}) \ {NoCell}
    IN IF T = S THEN S ELSE Reachable(T, ob)

\* list(cells): a new list of the same Cell objects
shallow_copy(cs, ob, bd, nb) == [list |-> cs, obj |-> ob, body |-> bd, next_body |-> nb]

\* deepcopy(cells): every reachable Cell and its body is copied to a new
\* object, and the links between the copies follow the originals'
deepcopy(cs, ob, bd, nb) ==
    LET R == Reachable(Range(cs), ob)
        rank(i) == Cardinality({j \in R : j <= i})
        at(k) == CHOOSE i \in R : rank(i) = k
        newid(i) == IF i = NoCell THEN NoCell ELSE Len(ob) + rank(i)
        newbody(i) == nb + rank(i) - 1
        copy(i) == [ob[i] EXCEPT !.body = newbody(i),
                                 !.mother = newid(ob[i].mother),
                                 !.daughter = newid(ob[i].daughter)]
    IN [list |-> [k \in 1..Len(cs) |-> newid(cs[k])],
        obj |-> ob \o [k \in 1..Cardinality(R) |-> copy(at(k))],
        body |-> bd @@ [b \in {newbody(i) : i \in R} |->
                            bd[ob[CHOOSE i \in R : newbody(i) = b].body]],
        next_body |-> nb + Cardinality(R)]

\* ------------------------------------------- step_and_update, lines 307-317
\* a warm-up test that already records the second frame
PastWarmUpFromOne(xv) == xv >= WarmUp

\* if x[0] > 1
PastWarmUp(xv) == xv > WarmUp

\* and the return to the driver of run_simulation, lines 121-131
RecordAndReturn ==
    /\ pc = "record"
    /\ LET snap == deepcopy(cells, obj, body, next_body)
           final == (x = sim_length - 1)
       IN /\ IF PastWarmUp(x)
             THEN /\ cell_timeseries' = Append(cell_timeseries, snap.list)
                  /\ obj' = snap.obj
                  /\ body' = snap.body
                  /\ next_body' = snap.next_body
             ELSE UNCHANGED <<cell_timeseries, obj, body, next_body>>
          /\ IF final
             THEN /\ n_saves' = n_saves + 1
                  /\ saved_len' = Len(cell_timeseries')
                  /\ window' = IF window = "open" THEN "exited" ELSE window
                  /\ x' = x
             ELSE /\ x' = x + 1
                  /\ UNCHANGED <<n_saves, saved_len, window>>
          /\ IF show_window
             THEN /\ pc' = IF final THEN "stamp" ELSE "purge"
                  /\ calls' = calls
             ELSE /\ calls' = calls + 1
                  /\ pc' = IF calls + 1 = sim_length + ExtraCalls THEN "stamp" ELSE "purge"
    /\ UNCHANGED <<params, cells, historic_cells, space, stats>>

\* on_key_press with key E between two ticks: the window closes and
\* pyglet.app.run() returns
on_key_press ==
    /\ pc = "purge"
    /\ window = "open"
    /\ window' = "closed"
    /\ pc' = "stamp"
    /\ UNCHANGED <<params, calls, x, cells, historic_cells, cell_timeseries, obj, body,
                   next_body, space, n_saves, saved_len, stats>>

\* ---------------------------------------------- run_simulation, lines 134-136
\* a stamping loop that gives every recorded cell the index of the last frame
StampFramesLast(ob, ts, frame) ==
    [i \in 1..Len(ob) |-> IF \E f \in 1..Len(ts) : Member(i, ts[f])
                          THEN [ob[i] EXCEPT !.t = Len(ts) - 1] ELSE ob[i]]

RECURSIVE StampFrames(_, _, _)
\* for frame, cells in enumerate(cell_timeseries): cell.t = frame
StampFrames(ob, ts, frame) ==
    IF frame >= Len(ts) THEN ob
    ELSE StampFrames([i \in 1..Len(ob) |-> IF Member(i, ts[frame + 1])
                                           THEN [ob[i] EXCEPT !.t = frame] ELSE ob[i]],
                     ts, frame + 1)

StampAndReturn ==
    /\ pc = "stamp"
    /\ obj' = StampFrames(obj, cell_timeseries, 0)
    /\ pc' = "returned"
    /\ UNCHANGED <<params, window, calls, x, cells, historic_cells, cell_timeseries, body,
                   next_body, space, n_saves, saved_len, stats>>

Next ==
    \/ PurgeBodies
    \/ RemoveCells
    \/ WipeSpace
    \/ UpdatePmCells
    \/ PhysicsAndSync
    \/ RecordAndReturn
    \/ on_key_press
    \/ StampAndReturn

Spec == Init /\ [][Next]_vars

\* =================================================================== claims
\* y position of the body of Cell object c
BodyY(c) == body[obj[c].body].y

\* the dynamic bodies among a sequence of body (or shape) ids
DynamicOf(seq) == SelectSeq(seq, LAMBDA b : body[b].body_type = DYNAMIC)

StaticOf(seq) == SelectSeq(seq, LAMBDA b : body[b].body_type = STATIC)

Occurrences(e, seq) == Cardinality({i \in 1..Len(seq) : seq[i] = e})

AllLiveInBounds == \A c \in Range(cells) : ~OutOfBounds(BodyY(c), ylim)

\* C1: when run_simulation returns after a run the user did not close, the
\* time series holds exactly sim_length - 2 frames
C1_TimeseriesLength ==
    (pc = "returned" /\ window # "closed") => Len(cell_timeseries) = sim_length - 2

\* C2: the removal pass of a step that starts with at least one live cell
\* leaves at least one live cell
C2_RemovalKeepsOneCell ==
    [][(pc = "remove" /\ Len(cells) >= 1) => Len(cells') >= 1]_vars

\* C3: a single in-bounds cell is never removed by the removal pass, and a
\* removal pass in which no live cell is out of bounds leaves at least one cell
C3_SingleCellSurvives ==
    [][(pc = "remove" /\ Len(cells) >= 1 /\ AllLiveInBounds)
         => /\ Len(cells') >= 1
            /\ (Len(cells) = 1 => cells' = cells)]_vars

\* C4: immediately after update_pm_cells the dynamic bodies of the space and
\* the live cells correspond one to one
C4_WorldMatchesCells ==
    pc = "phys" =>
        /\ Len(DynamicOf(space.bodies)) = Len(cells)
        /\ Len(DynamicOf(space.shapes)) = Len(cells)
        /\ \A c \in Range(cells) :
              /\ Occurrences(obj[c].body, space.bodies) = 1
              /\ Occurrences(obj[c].body, space.shapes) = 1
        /\ \A b \in Range(DynamicOf(space.bodies)) :
              Cardinality({i \in 1..Len(cells) : obj[cells[i]].body = b}) = 1

\* a pass of update_pm_cells that appended a daughter has just completed
C4_Witness ==
    /\ pc = "phys"
    /\ stats.live_mutations >= 1
    /\ Len(cells) >= 2

\* the Cell object built by the constructor call that took mask label k
Original(k) ==
    CHOOSE i \in 1..Len(obj) :
        /\ obj[i].mask_label = k
        /\ \A j \in 1..(i - 1) : obj[j].mask_label # k

\* C5: the historic-cell record holds every Cell ever created, in creation
\* order, and is only ever appended to
C5_HistoricComplete ==
    /\ [](historic_cells = [k \in 1..space.historic_N_cells |-> Original(k)])
    /\ [][IsPrefix(historic_cells, historic_cells')]_vars

\* C6: with lysis probability 0 and every live cell's body in bounds no step
\* removes a cell: the list only grows by appended daughters
C6_PopulationNonDecreasing ==
    [][(lysis_p = 0 /\ AllLiveInBounds) => IsPrefix(cells, cells')]_vars

\* a removal pass has just run on two or more in-bounds cells with lysis_p = 0
C6_Witness ==
    /\ pc = "wipe"
    /\ lysis_p = 0
    /\ Len(cells) >= 2
    /\ AllLiveInBounds

\* C7: once the results were persisted no further step runs, appends a frame
\* or persists again, and the frame counter moves by at most one per step
C7_FinalizingTerminal ==
    [][/\ (n_saves >= 1 => /\ n_saves' = n_saves
                           /\ cell_timeseries' = cell_timeseries
                           /\ pc' \in {"stamp", "returned"})
       /\ (x' = x \/ x' = x + 1)]_vars

\* every recorded frame, the Cell objects in it and their bodies are the same
\* before and after the step
FramesKept ==
    \A f \in 1..Len(cell_timeseries) :
        /\ cell_timeseries'[f] = cell_timeseries[f]
        /\ \A c \in Range(cell_timeseries[f]) :
              /\ obj'[c] = obj[c]
              /\ body'[obj[c].body] = body[obj[c].body]

\* C8: the frames already recorded, the Cell objects in them and their
\* bodies are left unchanged by every step of step_and_update
C8_SnapshotsIndependent ==
    [][(pc \in {"purge", "remove", "wipe", "update", "phys", "record"}) => FramesKept]_vars

\* a live cell has grown since the first frame recorded it
C8_Witness ==
    /\ Len(cell_timeseries) >= 1
    /\ \E c \in Range(cells) : \E s \in Range(cell_timeseries[1]) :
          /\ obj[s].mask_label = obj[c].mask_label
          /\ obj[s].length # obj[c].length

\* every dynamic body the space holds is the current body of one live cell
NoStaleNoDuplicate ==
    \A b \in Range(DynamicOf(space.bodies)) \cup Range(DynamicOf(space.shapes)) :
        /\ Occurrences(b, space.bodies) = 1
        /\ Occurrences(b, space.shapes) = 1
        /\ Cardinality({i \in 1..Len(cells) : obj[cells[i]].body = b}) = 1

\* C9: wipe_space removes every dynamic body and its shape and leaves the
\* static ones in place; between steps the space holds no stale or duplicate
\* body
C9_WipeRemovesDynamicOnly ==
    /\ [][pc = "wipe" => /\ DynamicOf(space'.bodies) = <<>>
                         /\ DynamicOf(space'.shapes) = <<>>
                         /\ space'.bodies = StaticOf(space.bodies)
                         /\ space'.shapes = StaticOf(space.shapes)]_vars
    /\ [](pc \in {"purge", "phys", "record", "stamp", "returned"} => NoStaleNoDuplicate)

\* wipe_space has just removed the bodies of two or more registered cells
C9_Witness ==
    /\ pc = "update"
    /\ stats.purge_removed = 0
    /\ Len(cells) >= 2
    /\ Len(space.bodies) = NStatic
    /\ Len(space.shapes) = NStatic

\* C10: no pass of a step changes the structure of a collection while a live
\* iterator over that collection is open
C10_NoMutationWhileIterating == stats.live_mutations = 0

\* C11: a pass of update_pm_cells over a non-empty live list executes exactly
\* SettleSteps settling world steps, however many cells the list holds
C11_SettleOncePerPass ==
    (pc = "phys" /\ Len(cells) >= 1) => stats.settle_steps = SettleSteps

\* the static bodies and shapes of the space are the same before and after
StaticsKept ==
    /\ StaticOf(space'.bodies) = StaticOf(space.bodies)
    /\ StaticOf(space'.shapes) = StaticOf(space.shapes)

\* C12: the out-of-bounds removal at the start of a step removes no static
\* trench body or shape, whatever ylim is
C12_PurgeKeepsStatics == [][(pc = "purge" /\ pc' = "remove") => StaticsKept]_vars

\* the log of a loop that removes the pairs of rem one by one, each removal
\* followed by one world step
Alternating(rem) ==
    [i \in 1..(2 * Len(rem)) |-> IF i % 2 = 1 THEN RemoveEvent(rem[(i + 1) \div 2])
                                 ELSE StepEvent]

\* the shapes whose body is out of bounds when the step starts
OutAtStart == SelectSeq(space.shapes, LAMBDA s : OutOfBounds(body[s].y, ylim))

\* C13: the out-of-bounds removal alternates removals and world steps, one
\* step after each removal, over the set of bodies that were out of bounds
\* before the first of these steps
C13_RemovalsAndStepsAlternate ==
    [][(pc = "purge" /\ pc' = "remove") =>
          /\ stats'.purge_log = Alternating(OutAtStart)
          /\ stats'.purge_steps = Len(OutAtStart)
          /\ space'.shapes = SelectSeq(space.shapes, LAMBDA s : ~Member(s, OutAtStart))
          /\ space'.bodies = SelectSeq(space.bodies, LAMBDA b : ~Member(b, OutAtStart))]_vars

\* the out-of-bounds removal has just removed two or more dynamic bodies
C13_Witness ==
    /\ pc = "remove"
    /\ stats.purge_removed >= 2
    /\ \A i \in 1..Len(stats.purge_log) :
          stats.purge_log[i].op = "remove" => body[stats.purge_log[i].id].body_type = DYNAMIC

\* the cells appended to the live list by the step
Appended == Range(cells') \ Range(cells)

C15_FramesStamped ==
    pc = "returned" =>
        \A f \in 1..Len(cell_timeseries) :
            \A c \in Range(cell_timeseries[f]) : obj[c].t = f - 1

\* run_simulation has returned two or more stamped frames
C15_Witness ==
    /\ pc = "returned"
    /\ Len(cell_timeseries) >= 2
    /\ \E c \in Range(cell_timeseries[2]) : obj[c].t = 1

\* C16: a step appends one snapshot at the end of the time series if and
\* only if the frame counter at that step is greater than 1; nothing is
\* recorded before the frame counter has reached 2, and recorded frames are
\* never removed or reordered
C16_TimeseriesAppendOnly ==
    /\ [][/\ IsPrefix(cell_timeseries, cell_timeseries')
          /\ pc = "record" =>
                Len(cell_timeseries') = Len(cell_timeseries) + (IF x > 1 THEN 1 ELSE 0)
          /\ pc # "record" => cell_timeseries' = cell_timeseries]_vars
    /\ [](x < 2 => cell_timeseries = <<>>)

\* a step past the warm-up has just appended a frame after two steps that
\* appended none
C16_Witness ==
    /\ pc = "purge"
    /\ x >= 2
    /\ Len(cell_timeseries) = 1

\* the bodies the out-of-bounds removal of the current step took out of the space
Purged == {stats.purge_log[i].id : i \in {j \in 1..Len(stats.purge_log) :
                                            stats.purge_log[j].op = "remove"}}

\* C17: every live cell whose body was removed from the space by the
\* out-of-bounds removal of a step is removed from the live list by the cell
\* removal pass of the same step
C17_BoundsChecksAgree ==
    [][pc = "remove" =>
          \A c \in Range(cells) : obj[c].body \in Purged => ~Member(c, cells')]_vars

\* C18: no step asks the space to remove a body or shape it does not hold or
\* to add one it already holds
C18_NoDoubleRemoveOrAdd == ~space.fault

\* a step in which the out-of-bounds removal, wipe_space and cell_adder have
\* all acted on the space
C18_Witness ==
    /\ pc = "phys"
    /\ stats.purge_removed >= 1
    /\ Len(stats.growth_log) >= 1
    /\ Len(DynamicOf(space.bodies)) >= 1
====
